---- MODULE Spec2Model ----
(***************************************************************************)
(* odmantic/engine.py: AIOEngine (recursive save over a reference graph)   *)
(* and AIOCursor (lazy result cursor), as state machines.                  *)
(*                                                                         *)
(* Spec        : AIOEngine.save / AIOEngine._save over a tree of model     *)
(*               instances, one asyncio task per _save call, the store's   *)
(*               update_one split into its match and its apply.            *)
(* SpecCursor  : AIOCursor.__await__ / AIOCursor.__aiter__ consumers over  *)
(*               one motor cursor.                                         *)
(* SpecFind    : AIOEngine.find / find_one / count over model classes with *)
(*               reference fields.                                         *)
(* SpecCascade : the recursion of AIOEngine._cascade_find_pipeline, one    *)
(*               step per call and per return.                             *)
(* SpecAll     : AIOEngine.save_all, one save() task per instance.         *)
(* SpecDelete  : AIOEngine.delete.                                         *)
(***************************************************************************)
EXTENDS Integers, Sequences, FiniteSets, TLC

\* ------------------------------------------------------------------ bounds
NumInst == 3      \* model instances 1..NumInst; instance 1 is the top of the tree
MaxId == 2        \* primary-key values 1..MaxId
MaxSaves == 2     \* top-level save() calls in one run
MaxDocs == 2      \* raw documents the motor cursor holds
MaxConsumers == 2 \* consumptions (await or async for) of one AIOCursor
NumModels == 3    \* model classes 1..NumModels
MaxRefs == 2      \* reference fields declared by the model classes, in all
MaxLimit == 2     \* limit and skip arguments of find: -1..MaxLimit
MaxDepth == 4     \* nested _cascade_find_pipeline calls before RecursionError
MaxBatch == 2     \* instances given to one save_all

Insts == 1..NumInst
Ids == 1..MaxId

VARIABLES
    \* ---- the model classes and the in-memory instances
    PK,           \* instance.__primary_key__: the name of the primary-key field
    parent,       \* the reference tree: parent[i] holds a reference field to i
    pkv,          \* the value of each instance's primary-key field
    modified,     \* instance.__fields_modified__
    \* ---- the store
    store,        \* committed documents, by <<collection, _id>>
    txn,          \* the transaction of save()'s session: open, and its documents
    \* ---- one top-level save() and its _save tasks
    saveState,    \* "idle" | "running" | "returned" | "raised"
    root,         \* the instance save() was called with
    result,       \* what save() returned or raised
    pc,           \* each _save call's position
    found,        \* update_one in flight: did the filter match a document
    err,          \* the exception a _save call ended with
    gerr,         \* the first exception set on a _save call's gather future
    \* ---- history of the current save(), for the properties
    storeAtStart, \* store when save() was called
    modAtStart,   \* modified when save() was called
    saves,        \* save() calls so far
    issued,       \* update_one calls issued by this save(): records
    late,         \* instances whose update_one was issued after save() ended
    \* ---- one AIOCursor and the consumptions of it
    stream,       \* the raw documents the motor cursor produces, in order
    pos,          \* how many of them the motor cursor has handed out
    results,      \* AIOCursor._results: None, or the cached list
    ckind,        \* each consumption: "none" | "await" | "aiter"
    cpc,          \* its position
    craw,         \* __await__: raw_docs, what to_list returned
    clocal,       \* __await__: instances; __aiter__: results
    cout,         \* what the consumer has received: the list, or the yields
    cmat,         \* history: was _results set when the consumption started
    cprior,       \* history: the consumptions already ended at its start
    readers,      \* history: the consumptions that read the motor cursor
    \* ---- the model classes of the queries, and find / find_one / count
    refs,         \* model.__references__: per model, the models its fields refer to
    coll,         \* the stored documents of each model's collection, by _id
    fcall,        \* the last call of find, find_one or count: its arguments
    fops,         \* the store operations that call issued, in order
    fres,         \* what it returned or raised
    \* ---- one call of _cascade_find_pipeline, its recursion unfolded
    bpc,          \* "idle" | "building" | "done" | "RecursionError"
    bmodel,       \* the model the outermost call was made with
    bstack,       \* the frames: model, fields done, the frame's pipeline so far
    bout,         \* the stage list the outermost call returned
    \* ---- one save_all and its save() tasks
    batch,        \* the instances save_all was called with, in order
    allState,     \* "idle" | "running" | "returned" | "raised"
    allResult,    \* what save_all returned or raised
    spc,          \* each save(): "idle" | "new" | "writing" | "commit" | "returned" | "raised"
    ssn,          \* the session each save() started (0: none)
    stxn,         \* the writes made in the transaction of each save()'s session
    sfound,       \* update_one in flight: did the filter match a document
    sres,         \* what each save() returned or raised
    allErr,       \* the first exception set on the gather of save_all
    \* ---- delete
    dres          \* the last delete: the instance and the count it returned

saveVars == <<PK, parent, pkv, modified, store, txn, saveState, root, result,
              pc, found, err, gerr, storeAtStart, modAtStart, saves, issued, late>>

cursorVars == <<stream, pos, results, ckind, cpc, craw, clocal, cout, cmat,
                cprior, readers>>

findVars == <<refs, coll, fcall, fops, fres>>

cascadeVars == <<bpc, bmodel, bstack, bout>>

allVars == <<batch, allState, allResult, spc, ssn, stxn, sfound, sres, allErr>>

facadeVars == <<findVars, cascadeVars, allVars, dres>>

vars == <<saveVars, cursorVars, facadeVars>>

\* ------------------------------------------------------- model classes
\* A model whose primary key is the default field "id", and a model that
\* declares its own primary key "key" beside a plain field "id".
PrimaryKeys == {"id", "key"}

OdmFields(pk) == IF pk = "id" THEN {"id", "name"} ELSE {"key", "id", "name"}

\* The modified-fields sets an instance is given to save() with: just loaded
\* or saved (clean), one plain field assigned, freshly constructed (all set).
ModifiedChoices(pk) == {{}, {"name"}, OdmFields(pk)}

\* getattr(instance, field): the primary key; the plain field "id" of a "key"
\* model, which holds another value than the key; "name", a value only i holds
Attr(i, f) ==
    CASE f = PK -> pkv[i]
      [] f = "id" -> (pkv[i] % MaxId) + 1
      [] OTHER -> i

Children(i) == {j \in Insts : parent[j] = i}

RECURSIVE Depth(_)
Depth(i) == IF parent[i] = 0 THEN 0 ELSE 1 + Depth(parent[i])

RECURSIVE Ancestors(_)
Ancestors(i) == IF parent[i] = 0 THEN {} ELSE {parent[i]} \cup Ancestors(parent[i])

Subtree(r) == {j \in Insts : j = r \/ r \in Ancestors(j)}

\* type(instance).__collection__: one model class per level of the tree
Collection(i) == Depth(i)

Collections == 0..(NumInst - 1)
Slots == Collections \X Ids

\* ------------------------------------------------------------- the store
NoDoc == [owner |-> 0, fields |-> <<>>]
NoSession == "NoSession"
Session == "s"
NoErr == [kind |-> "none", at |-> 0]
NoResult == [kind |-> "none", instance |-> 0]

\* instance.doc(include=fields): the raw document restricted to the fields
InstanceDoc(i, fields) == [f \in fields |-> Attr(i, f)]

\* _save, lines 145-147: the write document
WriteDoc(i) == InstanceDoc(i, modified[i] \ {PK})

\* _save, line 150: the filter {"_id": instance.id}
WriteFilter(i) == <<Collection(i), Attr(i, "id")>>

\* _save, lines 149-154: the session keyword update_one is given (none)
UpdateOneSession(s) == NoSession

\* a transaction holds the documents written in it, Untouched for the others
Untouched == [owner |-> -1, fields |-> <<>>]
EmptyTxn == [open |-> TRUE, docs |-> [s \in Slots |-> Untouched]]
NoTxn == [open |-> FALSE, docs |-> [s \in Slots |-> Untouched]]

\* the documents an operation sees: the transaction's when it runs in one
View(sess) ==
    IF sess = NoSession \/ ~txn.open THEN store
    ELSE [s \in Slots |-> IF txn.docs[s] = Untouched THEN store[s] ELSE txn.docs[s]]

Exists(docs, slot) == docs[slot].owner # 0

\* {"$set": doc} with upsert=True on the document at slot
Upsert(docs, slot, setdoc, by) ==
    LET old == docs[slot]
        new == IF old.owner = 0
                 THEN [owner |-> by, fields |-> setdoc]
                 ELSE [owner |-> old.owner,
                       fields |-> [f \in DOMAIN old.fields \cup DOMAIN setdoc |->
                                     IF f \in DOMAIN setdoc THEN setdoc[f]
                                     ELSE old.fields[f]]]
    IN [docs EXCEPT ![slot] = new]

\* update_one applied: in the transaction of its session, or at once
ApplyWrite(sess, slot, setdoc, by) ==
    IF sess = NoSession \/ ~txn.open
      THEN /\ store' = Upsert(store, slot, setdoc, by)
           /\ UNCHANGED txn
      ELSE /\ txn' = [txn EXCEPT !.docs[slot] = Upsert(View(sess), slot, setdoc, by)[slot]]
           /\ UNCHANGED store

\* ------------------------------------------------------------ _save tasks
Live(t) == pc[t] \in {"new", "gather", "writing"}

\* the test of line 144 left out: a write for every instance
AlwaysWrites(i) == TRUE

\* _save, line 144: is a write issued for the instance
HasModified(i) == modified[i] # {}

\* _save, line 142: await gather(*save_tasks) returns once every child is done
\* the gather of line 142 not awaited: the call goes on at once
GatherNotAwaited(t) == TRUE

GatherDone(t) == \A c \in Children(t) : pc[c] = "done"

\* _save, lines 137-154 up to the first await that suspends: a call that
\* starts awaits the gather of its children (without a reference field the
\* gather returns at once), a call whose gather returned issues its write
\* when a field is modified
PcEntered(t) ==
    IF Children(t) # {} THEN "gather"
    ELSE IF HasModified(t) THEN "writing" ELSE "done"

PcAfterGather(t) == IF HasModified(t) THEN "writing" ELSE "done"

\* lines 149-154: the update_one call of t, as issued
WriteCall(t) == [inst |-> t, slot |-> WriteFilter(t), doc |-> WriteDoc(t)]

\* the calls in S start and the calls in T resume from their gather, in one
\* turn of the event loop: the children of S are scheduled, the writes issued
\* and their filters matched by the store
Advance(pcs, iss, lt, running, S, T) ==
    LET writing == {j \in S : PcEntered(j) = "writing"} \cup
                   {j \in T : PcAfterGather(j) = "writing"}
    IN /\ pc' = [j \in Insts |->
                   IF j \in S THEN PcEntered(j)
                   ELSE IF j \in T THEN PcAfterGather(j)
                   ELSE IF parent[j] \in S THEN "new"
                   ELSE pcs[j]]
       /\ found' = [j \in Insts |->
                      IF j \in writing
                        THEN Exists(View(UpdateOneSession(Session)), WriteFilter(j))
                        ELSE found[j]]
       /\ issued' = iss \cup {WriteCall(j) : j \in writing}
       /\ late' = IF running THEN lt ELSE lt \cup writing

\* a _save call ends with exception e: its parent's gather future takes the
\* first exception of its children
Raise(t, e) ==
    /\ pc' = [pc EXCEPT ![t] = "failed"]
    /\ err' = [err EXCEPT ![t] = e]
    /\ gerr' = IF t # root /\ parent[t] # 0 /\ pc[parent[t]] = "gather"
                   /\ gerr[parent[t]] = NoErr
                THEN [gerr EXCEPT ![parent[t]] = e]
                ELSE gerr

\* save, lines 156-160: start_session, start_transaction, await _save(root)
SaveCall(i) ==
    /\ \A t \in Insts : ~Live(t)
    /\ saves' = saves + 1
    /\ saveState' = "running"
    /\ root' = i
    /\ result' = NoResult
    /\ txn' = EmptyTxn
    /\ err' = [t \in Insts |-> NoErr]
    /\ gerr' = [t \in Insts |-> NoErr]
    /\ storeAtStart' = store
    /\ modAtStart' = modified
    /\ Advance([t \in Insts |-> "idle"], {}, {}, TRUE, {i}, {})
    /\ UNCHANGED <<cursorVars, facadeVars, PK, parent, pkv, modified, store>>

\* the caller's first save(instance)
SaveStart(i) ==
    /\ saveState = "idle"
    /\ SaveCall(i)

\* the caller saves again, once the previous save() has returned or raised
\* and the calls it left behind have ended
SaveAgain(i) ==
    /\ saveState \in {"returned", "raised"}
    /\ saves < MaxSaves
    /\ SaveCall(i)

\* the _save calls scheduled by a gather start running, in the next turn of
\* the event loop
TasksRun ==
    /\ \E t \in Insts : pc[t] = "new"
    /\ Advance(pc, issued, late, saveState = "running",
               {t \in Insts : pc[t] = "new"}, {})
    /\ UNCHANGED <<cursorVars, facadeVars, PK, parent, pkv, modified, store, txn, saveState, root, result,
                   err, gerr, storeAtStart, modAtStart, saves>>

\* line 142: the gather of the children returns
GatherReturn(t) ==
    /\ pc[t] = "gather"
    /\ gerr[t] = NoErr
    /\ GatherDone(t)
    /\ Advance(pc, issued, late, saveState = "running", {}, {t})
    /\ UNCHANGED <<cursorVars, facadeVars, PK, parent, pkv, modified, store, txn, saveState, root, result,
                   err, gerr, storeAtStart, modAtStart, saves>>

\* line 142: the gather raises the first exception of a child
GatherRaise(t) ==
    /\ pc[t] = "gather"
    /\ gerr[t] # NoErr
    /\ Raise(t, gerr[t])
    /\ UNCHANGED <<cursorVars, facadeVars, PK, parent, pkv, modified, store, txn, saveState, root, result,
                   found, storeAtStart, modAtStart, saves, issued, late>>

\* lines 149-154: update_one completes: the document is updated, or inserted
WriteOk(t) ==
    /\ pc[t] = "writing"
    /\ ApplyWrite(UpdateOneSession(Session), WriteFilter(t), WriteDoc(t), t)
    /\ pc' = [pc EXCEPT ![t] = "done"]
    /\ UNCHANGED <<cursorVars, facadeVars, PK, parent, pkv, modified, saveState, root, result, found,
                   err, gerr, storeAtStart, modAtStart, saves, issued, late>>

\* lines 149-154: the filter matched nothing and the insert finds the _id
\* taken by a concurrent insert: DuplicateKeyError on the key pattern {_id}
WriteDupPk(t) ==
    /\ pc[t] = "writing"
    /\ ~found[t]
    /\ Exists(View(UpdateOneSession(Session)), WriteFilter(t))
    /\ Raise(t, [kind |-> "DuplicateKey_id", at |-> t])
    /\ UNCHANGED <<cursorVars, facadeVars, PK, parent, pkv, modified, store, txn, saveState, root, result,
                   found, storeAtStart, modAtStart, saves, issued, late>>

\* lines 149-154: update_one raises a DuplicateKeyError on another unique
\* index, or a transport error
WriteFail(t, kind) ==
    /\ pc[t] = "writing"
    /\ Raise(t, [kind |-> kind, at |-> t])
    /\ UNCHANGED <<cursorVars, facadeVars, PK, parent, pkv, modified, store, txn, saveState, root, result,
                   found, storeAtStart, modAtStart, saves, issued, late>>

\* save, line 161: the modified-fields sets once the transaction is committed
ModifiedAfterReturn == [modified EXCEPT ![root] = {}]

\* line 161 moved into a finally clause: cleared on every exit
ClearedInFinally == [modified EXCEPT ![root] = {}]

\* save, lines 157-165: the modified-fields sets when save raises
ModifiedAfterRaise == modified

\* save, lines 158-161 and 166: _save returned, the transaction commits
SaveReturn ==
    /\ saveState = "running"
    /\ pc[root] = "done"
    /\ store' = View(Session)
    /\ txn' = NoTxn
    /\ modified' = ModifiedAfterReturn
    /\ saveState' = "returned"
    /\ result' = [kind |-> "ok", instance |-> root]
    /\ UNCHANGED <<cursorVars, facadeVars, PK, parent, pkv, root, pc, found, err, gerr, storeAtStart,
                   modAtStart, saves, issued, late>>

\* save, lines 162-165: the exception save raises for the one _save ended with
SaveError(e) ==
    IF e.kind = "DuplicateKey_id"
      THEN [kind |-> "DuplicatePrimaryKeyError", instance |-> root]
      ELSE [kind |-> e.kind, instance |-> 0]

\* save, lines 158-165: _save raised, the transaction aborts, save raises
SaveRaise ==
    /\ saveState = "running"
    /\ pc[root] = "failed"
    /\ txn' = NoTxn
    /\ modified' = ModifiedAfterRaise
    /\ saveState' = "raised"
    /\ result' = SaveError(err[root])
    /\ UNCHANGED <<cursorVars, facadeVars, PK, parent, pkv, store, root, pc, found, err, gerr,
                   storeAtStart, modAtStart, saves, issued, late>>

\* ------------------------------------------------------------- AIOCursor
Consumers == 1..MaxConsumers
RawDocs == {"a", "b", "bad"}
Streams == UNION {[1..n -> RawDocs] : n \in 0..MaxDocs}

None == [set |-> FALSE, items |-> <<>>]
Cached(items) == [set |-> TRUE, items |-> items]

\* model.parse_doc(raw_doc): fails on a malformed document
Parses(raw) == raw # "bad"

\* _parse_document, lines 38-41: the parsed instance, its modified fields reset
ParseDocument(raw) == [doc |-> raw, fields_modified |-> {}]

\* the assignment of _results in a finally clause: the partial list cached
CacheOnError(c) == Cached(clocal[c])

\* __await__ lines 46-50, __aiter__ lines 60-63: _results when the motor
\* cursor or the parse raises in consumption c
ResultsOnError(c) == results

\* line 64 left out: an iteration never caches its results
NotCached(c) == results

\* __aiter__, line 64: _results once the motor cursor is exhausted
ResultsOnExhausted(c) == Cached(clocal[c])

Begin(c, kind) ==
    /\ cpc[c] = "idle"
    /\ ckind' = [ckind EXCEPT ![c] = kind]
    /\ cmat' = [cmat EXCEPT ![c] = results.set]
    /\ cprior' = [cprior EXCEPT
                    ![c] = {d \in Consumers : cpc[d] \in {"done", "failed", "abandoned"}}]

\* __await__, lines 44-46: return the cache, or await to_list
AwaitStart(c) ==
    /\ Begin(c, "await")
    /\ IF results.set
         THEN /\ cpc' = [cpc EXCEPT ![c] = "done"]
              /\ cout' = [cout EXCEPT ![c] = results.items]
         ELSE /\ cpc' = [cpc EXCEPT ![c] = "to_list"]
              /\ UNCHANGED cout
    /\ UNCHANGED <<saveVars, facadeVars, stream, pos, results, craw, clocal, readers>>

\* line 46: to_list(length=None) returns what is left of the motor cursor
ToList(c) ==
    /\ cpc[c] = "to_list"
    /\ craw' = [craw EXCEPT ![c] = SubSeq(stream, pos + 1, Len(stream))]
    /\ pos' = Len(stream)
    /\ readers' = readers \cup {c}
    /\ cpc' = [cpc EXCEPT ![c] = "parsing"]
    /\ UNCHANGED <<saveVars, facadeVars, stream, results, ckind, clocal, cout, cmat, cprior>>

\* lines 48-50: one raw document is parsed and appended, then the bare yield
AwaitParse(c) ==
    /\ cpc[c] = "parsing"
    /\ Len(clocal[c]) < Len(craw[c])
    /\ LET raw == craw[c][Len(clocal[c]) + 1]
       IN IF Parses(raw)
            THEN /\ clocal' = [clocal EXCEPT ![c] = Append(@, ParseDocument(raw))]
                 /\ UNCHANGED <<cpc, results>>
            ELSE /\ cpc' = [cpc EXCEPT ![c] = "failed"]
                 /\ results' = ResultsOnError(c)
                 /\ UNCHANGED clocal
    /\ UNCHANGED <<saveVars, facadeVars, stream, pos, ckind, craw, cout, cmat, cprior, readers>>

\* lines 51-52: the list is cached and returned
AwaitReturn(c) ==
    /\ cpc[c] = "parsing"
    /\ Len(clocal[c]) = Len(craw[c])
    /\ results' = Cached(clocal[c])
    /\ cout' = [cout EXCEPT ![c] = clocal[c]]
    /\ cpc' = [cpc EXCEPT ![c] = "done"]
    /\ UNCHANGED <<saveVars, facadeVars, stream, pos, ckind, craw, clocal, cmat, cprior, readers>>

\* __aiter__, lines 55-59: replay the cache, or start reading the motor cursor
IterStart(c) ==
    /\ Begin(c, "aiter")
    /\ IF results.set
         THEN /\ cpc' = [cpc EXCEPT ![c] = "done"]
              /\ cout' = [cout EXCEPT ![c] = results.items]
         ELSE /\ cpc' = [cpc EXCEPT ![c] = "fetch"]
              /\ UNCHANGED cout
    /\ UNCHANGED <<saveVars, facadeVars, stream, pos, results, craw, clocal, readers>>

\* lines 60-63: the next raw document is parsed, appended and yielded
IterNext(c) ==
    /\ cpc[c] = "fetch"
    /\ pos < Len(stream)
    /\ pos' = pos + 1
    /\ readers' = readers \cup {c}
    /\ LET raw == stream[pos + 1]
       IN IF Parses(raw)
            THEN /\ clocal' = [clocal EXCEPT ![c] = Append(@, ParseDocument(raw))]
                 /\ cout' = [cout EXCEPT ![c] = Append(@, ParseDocument(raw))]
                 /\ UNCHANGED <<cpc, results>>
            ELSE /\ cpc' = [cpc EXCEPT ![c] = "failed"]
                 /\ results' = ResultsOnError(c)
                 /\ UNCHANGED <<clocal, cout>>
    /\ UNCHANGED <<saveVars, facadeVars, stream, ckind, craw, cmat, cprior>>

\* lines 60 and 64: the motor cursor is exhausted, the results are cached
IterExhausted(c) ==
    /\ cpc[c] = "fetch"
    /\ pos = Len(stream)
    /\ readers' = readers \cup {c}
    /\ results' = ResultsOnExhausted(c)
    /\ cpc' = [cpc EXCEPT ![c] = "done"]
    /\ UNCHANGED <<saveVars, facadeVars, stream, pos, ckind, craw, clocal, cout, cmat, cprior>>

\* the consumer leaves its async for after an instance: the generator is
\* never resumed
IterAbandon(c) ==
    /\ cpc[c] = "fetch"
    /\ cout[c] # <<>>
    /\ cpc' = [cpc EXCEPT ![c] = "abandoned"]
    /\ UNCHANGED <<saveVars, facadeVars, stream, pos, results, ckind, craw, clocal, cout, cmat, cprior,
                   readers>>

\* lines 46 and 60: the motor cursor raises a transport error
FetchFail(c) ==
    /\ cpc[c] \in {"to_list", "fetch"}
    /\ readers' = readers \cup {c}
    /\ cpc' = [cpc EXCEPT ![c] = "failed"]
    /\ results' = ResultsOnError(c)
    /\ UNCHANGED <<saveVars, facadeVars, stream, pos, ckind, craw, clocal, cout, cmat, cprior>>

\* AIOCursor.__init__, lines 33-36
InitCursorOver(docs) ==
    /\ stream = docs
    /\ pos = 0
    /\ results = None
    /\ ckind = [c \in Consumers |-> "none"]
    /\ cpc = [c \in Consumers |-> "idle"]
    /\ craw = [c \in Consumers |-> <<>>]
    /\ clocal = [c \in Consumers |-> <<>>]
    /\ cout = [c \in Consumers |-> <<>>]
    /\ cmat = [c \in Consumers |-> FALSE]
    /\ cprior = [c \in Consumers |-> {}]
    /\ readers = {}

\* ------------------------------------------ model classes of the queries
Models == 1..NumModels
\* an argument that is not a subclass of Model
NotAModel == 0
ModelArgs == Models \cup {NotAModel}

\* the test of lines 111, 129 and 182 left out: any argument goes on
AnyArgument(model) == TRUE

\* lenient_issubclass(model, Model)
IsModel(model) == model \in Models

\* The reference fields the model classes declare: <<model, referred model>>
\* in declaration order, MaxRefs of them at most.
Decls == UNION {[1..n -> Models \X Models] : n \in 0..MaxRefs}

RECURSIVE TargetsOf(_, _)
TargetsOf(d, m) ==
    IF d = <<>> THEN <<>>
    ELSE (IF Head(d)[1] = m THEN <<Head(d)[2]>> ELSE <<>>) \o TargetsOf(Tail(d), m)

Graphs ==
    {[m \in Models |-> TargetsOf(d, m)] :
        d \in {e \in Decls : \A k \in 1..(Len(e) - 1) : e[k][1] <= e[k + 1][1]}}

\* model.__references__, in declaration order: the k-th reference field is
\* named k and stores the referred document's _id under the key k
References(model) == IF model \in Models THEN refs[model] ELSE <<>>

\* odm_reference.model, odm_reference.key_name, model.__collection__
RefModel(model, k) == References(model)[k]
KeyName(model, k) == k
ModelCollection(model) == model

Referred(g, m) == {g[m][k] : k \in DOMAIN g[m]}

RECURSIVE ReachIn(_, _, _)
ReachIn(g, S, n) ==
    IF n = 0 THEN S ELSE ReachIn(g, S \cup UNION {Referred(g, x) : x \in S}, n - 1)

\* the models reached from m through one reference field or more
Reachable(g, m) == ReachIn(g, Referred(g, m), NumModels)

\* no reference cycle among the models reachable from m
Acyclic(g, m) == \A x \in {m} \cup Reachable(g, m) : x \notin Reachable(g, x)

AcyclicGraphs == {g \in Graphs : \A m \in Models : Acyclic(g, m)}

\* ------------------------------------------------------------- pipelines
Stage(op, arg) == [op |-> op, arg |-> arg]

EmptyQuery == [field |-> "none", value |-> 0]
Queries == {EmptyQuery} \cup {[field |-> "_id", value |-> v] : v \in Ids}

\* line 89: {"$match": {"$expr": {"$eq": ["$_id", "$$foreign_id"]}}}
ForeignMatch == Stage("$match", [field |-> "$expr", value |-> 0])

\* the recursive call of lines 90-93 left out: a lookup with no nested stages
LookupFlat(model, k, sub) ==
    Stage("$lookup", [from |-> ModelCollection(RefModel(model, k)),
                      let |-> KeyName(model, k),
                      pipeline |-> <<ForeignMatch>>,
                      as |-> k])

\* lines 84-98: the $lookup stage of the k-th reference field
Lookup(model, k, sub) ==
    Stage("$lookup", [from |-> ModelCollection(RefModel(model, k)),
                      let |-> KeyName(model, k),
                      pipeline |-> <<ForeignMatch>> \o sub,
                      as |-> k])

\* line 100: the $unwind stage of the k-th reference field
Unwind(k) == Stage("$unwind", k)

\* _cascade_find_pipeline, lines 80-101, from the k-th reference field on
RECURSIVE CascadeFrom(_, _)
CascadeFrom(model, k) ==
    IF k > Len(References(model)) THEN <<>>
    ELSE <<Lookup(model, k, CascadeFrom(RefModel(model, k), 1)), Unwind(k)>>
         \o CascadeFrom(model, k + 1)

CascadePipeline(model) == CascadeFrom(model, 1)

\* the test of line 116 left out: a $limit stage for every limit, 0 included
AnyLimit(limit) == TRUE

\* lines 116-117: is the $limit stage appended
HasLimit(limit) == limit > 0

\* lines 118-119: is the $skip stage appended
HasSkip(skip) == skip > 0

\* find, lines 115-120
FindPipeline(model, query, limit, skip) ==
    <<Stage("$match", query)>>
    \o (IF HasLimit(limit) THEN <<Stage("$limit", limit)>> ELSE <<>>)
    \o (IF HasSkip(skip) THEN <<Stage("$skip", skip)>> ELSE <<>>)
    \o CascadePipeline(model)

\* ---------------------------------------------- the queried collections
\* a collection holds at most one document per _id; a document of model m
\* stores under the key k the _id its k-th reference field refers to
NoStored(m) == [present |-> FALSE, fk |-> [k \in 1..Len(References(m)) |-> 1]]

\* the raw document as the collection hands it to a pipeline
RawDoc(m, id) ==
    [_id |-> id, fk |-> coll[m][id].fk, emb |-> [k \in 1..Len(References(m)) |-> <<>>]]

RECURSIVE DocsFrom(_, _)
DocsFrom(m, id) ==
    IF id > MaxId THEN <<>>
    ELSE (IF coll[m][id].present THEN <<RawDoc(m, id)>> ELSE <<>>) \o DocsFrom(m, id + 1)

\* the documents of a collection, in _id order (none in a collection that
\* does not exist)
CollectionDocs(m) == IF m \in Models THEN DocsFrom(m, 1) ELSE <<>>

\* does a document pass a $match: the query of find, or the _id of a lookup
Matches(q, d, foreign_id) ==
    CASE q.field = "none" -> TRUE
      [] q.field = "_id" -> d._id = q.value
      [] q.field = "$expr" -> d._id = foreign_id

\* $unwind of the array under path: one document per element, none for []
RECURSIVE UnwindDocs(_, _)
UnwindDocs(docs, path) ==
    IF docs = <<>> THEN <<>>
    ELSE [j \in 1..Len(Head(docs).emb[path]) |->
             [Head(docs) EXCEPT !.emb[path] = Head(docs).emb[path][j]]]
         \o UnwindDocs(Tail(docs), path)

\* collection.aggregate(pipeline): the stages applied in order
RECURSIVE Aggregate(_, _, _)
Aggregate(stages, docs, foreign_id) ==
    IF stages = <<>> THEN docs
    ELSE LET st == Head(stages)
             out ==
               CASE st.op = "$match" ->
                      SelectSeq(docs, LAMBDA d : Matches(st.arg, d, foreign_id))
                 [] st.op = "$limit" ->
                      SubSeq(docs, 1, IF st.arg < Len(docs) THEN st.arg ELSE Len(docs))
                 [] st.op = "$skip" -> SubSeq(docs, st.arg + 1, Len(docs))
                 [] st.op = "$lookup" ->
                      [i \in 1..Len(docs) |->
                         [docs[i] EXCEPT !.emb[st.arg.as] =
                             Aggregate(st.arg.pipeline, CollectionDocs(st.arg.from),
                                       docs[i].fk[st.arg.let])]]
                 [] st.op = "$unwind" -> UnwindDocs(docs, st.arg)
         IN Aggregate(Tail(stages), out, foreign_id)

\* the documents find's motor cursor produces
FindDocs(model, query, limit, skip) ==
    Aggregate(FindPipeline(model, query, limit, skip), CollectionDocs(model), 0)

\* AIOCursor.__await__ on a fresh cursor: every raw document parsed
ParseAll(docs) == [i \in 1..Len(docs) |-> ParseDocument(docs[i])]

\* ------------------------------------------------ find, find_one, count
NoCall == [name |-> "none", model |-> 0, query |-> EmptyQuery, limit |-> 0, skip |-> 0]
NoValue == [kind |-> "none", value |-> 0]
TypeError(name) == [kind |-> "TypeError", value |-> name]

AggregateOp(model, pipeline) ==
    [op |-> "aggregate", collection |-> ModelCollection(model), arg |-> pipeline]

\* find, lines 103-122 (the caller's one call of the run: no call changes
\* what a later one reads)
Find(model, query, limit, skip) ==
    /\ fcall = NoCall
    /\ fcall' = [name |-> "find", model |-> model, query |-> query,
                 limit |-> limit, skip |-> skip]
    /\ IF ~IsModel(model)
         THEN /\ fres' = TypeError("find")
              /\ fops' = <<>>
         ELSE LET pipeline == FindPipeline(model, query, limit, skip)
              IN /\ fops' = <<AggregateOp(model, pipeline)>>
                 /\ fres' = [kind |-> "AIOCursor",
                             value |-> [model |-> model, results |-> None]]
    /\ UNCHANGED <<saveVars, cursorVars, refs, coll, cascadeVars, allVars, dres>>

\* find_one, lines 124-134: find with limit=1, the cursor awaited
FindOne(model, query) ==
    /\ fcall = NoCall
    /\ fcall' = [name |-> "find_one", model |-> model, query |-> query,
                 limit |-> 1, skip |-> 0]
    /\ IF ~IsModel(model)
         THEN /\ fres' = TypeError("find_one")
              /\ fops' = <<>>
         ELSE LET pipeline == FindPipeline(model, query, 1, 0)
                  found1 == ParseAll(FindDocs(model, query, 1, 0))
              IN /\ fops' = <<AggregateOp(model, pipeline)>>
                 /\ fres' = IF Len(found1) = 0
                              THEN [kind |-> "None", value |-> 0]
                              ELSE [kind |-> "instance", value |-> found1[1]]
    /\ UNCHANGED <<saveVars, cursorVars, refs, coll, cascadeVars, allVars, dres>>

\* count, lines 181-186
Count(model, query) ==
    /\ fcall = NoCall
    /\ fcall' = [name |-> "count", model |-> model, query |-> query,
                 limit |-> 0, skip |-> 0]
    /\ IF ~IsModel(model)
         THEN /\ fres' = TypeError("count")
              /\ fops' = <<>>
         ELSE /\ fops' = <<[op |-> "count_documents",
                            collection |-> ModelCollection(model), arg |-> query]>>
              /\ fres' = [kind |-> "int",
                          value |-> Len(Aggregate(<<Stage("$match", query)>>,
                                                  CollectionDocs(model), 0))]
    /\ UNCHANGED <<saveVars, cursorVars, refs, coll, cascadeVars, allVars, dres>>

FailureKinds == {"DuplicateKey_other", "Transport"}

Trees == {p \in [Insts -> 0..NumInst] :
             /\ p[1] = 0
             /\ \A i \in Insts \ {1} : p[i] \in 1..(i - 1)}

\* the document of the collection that instance i is the in-memory copy of
OwnSlot(i) == <<Collection(i), pkv[i]>>

\* An instance is freshly constructed (every field modified, no document yet),
\* or was loaded from its document and is clean or has one field assigned.
Fresh(pk, m) == m = OdmFields(pk)

StoredDoc(pk, v, i, m) ==
    [owner |-> i,
     fields |-> [f \in OdmFields(pk) \ {pk} |->
                   IF f = "id" THEN (v[i] % MaxId) + 1
                   ELSE IF "name" \in m THEN 0 ELSE i]]

RECURSIVE DepthIn(_, _)
DepthIn(p, i) == IF p[i] = 0 THEN 0 ELSE 1 + DepthIn(p, p[i])

InitialStore(pk, p, v, mod) ==
    [s \in Slots |->
       LET held == {i \in Insts : ~Fresh(pk, mod[i]) /\ <<DepthIn(p, i), v[i]>> = s}
       IN IF held = {} THEN NoDoc
          ELSE LET i == CHOOSE j \in held : \A k \in held : j <= k
               IN StoredDoc(pk, v, i, mod[i])]

\* ------------------------- _cascade_find_pipeline, call by call
\* a frame: the model of the call, the reference field the loop is at, and
\* the frame's pipeline so far
OnStack == {bstack[i].model : i \in DOMAIN bstack}

\* a guard against cycles: a call for a model that a frame is already
\* building loops over no field
UnlessOnStack(model) == IF model \in OnStack THEN <<>> ELSE References(model)

\* line 81: the reference fields the call loops over (all of the model's:
\* the code keeps no record of the models under way)
LoopFields(model) == References(model)

Frame(model) == [model |-> model, k |-> 1, fields |-> LoopFields(model),
                 pipeline |-> <<>>]

Top == bstack[Len(bstack)]

\* a caller builds the cascade stages of a model: line 80
CascadeStart(model) ==
    /\ bpc = "idle"
    /\ bpc' = "building"
    /\ bmodel' = model
    /\ bstack' = <<Frame(model)>>
    /\ UNCHANGED <<saveVars, cursorVars, findVars, bout, allVars, dres>>

\* lines 81-93: the loop reaches a reference field and calls itself for the
\* referred model
CascadeCall ==
    /\ bpc = "building"
    /\ Top.k <= Len(Top.fields)
    /\ Len(bstack) < MaxDepth
    /\ bstack' = Append(bstack, Frame(Top.fields[Top.k]))
    /\ UNCHANGED <<saveVars, cursorVars, findVars, bpc, bmodel, bout, allVars, dres>>

\* the same call with the interpreter's recursion limit reached
CascadeOverflow ==
    /\ bpc = "building"
    /\ Top.k <= Len(Top.fields)
    /\ Len(bstack) >= MaxDepth
    /\ bpc' = "RecursionError"
    /\ UNCHANGED <<saveVars, cursorVars, findVars, bmodel, bstack, bout, allVars, dres>>

\* line 101: the loop is over, the call returns its pipeline; lines 83-100 of
\* the caller append the lookup holding it, and the unwind
CascadeReturn ==
    /\ bpc = "building"
    /\ Top.k > Len(Top.fields)
    /\ IF Len(bstack) = 1
         THEN /\ bout' = Top.pipeline
              /\ bpc' = "done"
              /\ bstack' = <<>>
         ELSE LET caller == bstack[Len(bstack) - 1]
                  pair == <<Lookup(caller.model, caller.k, Top.pipeline),
                            Unwind(caller.k)>>
              IN /\ bstack' = [SubSeq(bstack, 1, Len(bstack) - 1)
                                 EXCEPT ![Len(bstack) - 1] =
                                    [@ EXCEPT !.k = @ + 1,
                                              !.pipeline = @ \o pair]]
                 /\ UNCHANGED <<bout, bpc>>
    /\ UNCHANGED <<saveVars, cursorVars, findVars, bmodel, allVars, dres>>

\* ---------------------------------------------------------- save_all
\* what save_all and delete leave alone of the state of save()
saveRest == <<PK, parent, pkv, txn, saveState, root, result, pc, found, err, gerr,
              saves, issued, late>>

\* the instances save_all is given: up to MaxBatch distinct instances, each
\* without a reference field
Batches ==
    {b \in UNION {[1..n -> Insts] : n \in 1..MaxBatch} :
        \A j, k \in DOMAIN b : j # k => b[j] # b[k]}

InBatch == {batch[k] : k \in DOMAIN batch}

\* one session for all the saves of the engine
SharedSession(i) == 1

\* save, line 158: start_session() gives each save() call a session of its own
SessionOf(i) == i

\* save, lines 162-165, for the instance save() was called with
SaveErrorFor(i, e) ==
    IF e.kind = "DuplicateKey_id"
      THEN [kind |-> "DuplicatePrimaryKeyError", instance |-> i]
      ELSE [kind |-> e.kind, instance |-> 0]

\* commit_transaction: the writes held by the session's transaction applied
RECURSIVE ApplyAll(_, _)
ApplyAll(docs, W) ==
    IF W = {} THEN docs
    ELSE LET w == CHOOSE x \in W : TRUE
         IN ApplyAll(Upsert(docs, w.slot, w.doc, w.inst), W \ {w})

\* lines 169-171: gather(*[self.save(instance) for instance in instances]),
\* instances being the batch the caller holds
SaveAll ==
    /\ allState = "idle"
    /\ allState' = "running"
    /\ spc' = [i \in Insts |-> IF i \in InBatch THEN "new" ELSE "idle"]
    /\ storeAtStart' = store
    /\ modAtStart' = modified
    /\ UNCHANGED <<saveRest, cursorVars, findVars, cascadeVars, dres, modified, store,
                   batch, allResult, ssn, stxn, sfound, sres, allErr>>

\* the save() tasks start, in the next turn of the event loop; each: lines
\* 158-160 and _save up to its first await that suspends (update_one when a
\* field is modified, else the commit)
SavesRun ==
    /\ \E i \in Insts : spc[i] = "new"
    /\ LET S == {i \in Insts : spc[i] = "new"}
       IN /\ ssn' = [i \in Insts |-> IF i \in S THEN SessionOf(i) ELSE ssn[i]]
          /\ spc' = [i \in Insts |->
                       IF i \in S THEN (IF HasModified(i) THEN "writing" ELSE "commit")
                       ELSE spc[i]]
          /\ sfound' = [i \in Insts |->
                          IF i \in S /\ HasModified(i)
                            THEN Exists(store, WriteFilter(i)) ELSE sfound[i]]
    /\ UNCHANGED <<saveRest, cursorVars, findVars, cascadeVars, dres, modified, store,
                   storeAtStart, modAtStart, batch, allState, allResult, stxn, sres,
                   allErr>>

\* lines 149-154: update_one of save(i) completes: applied at once, or held
\* by the transaction of the session it was given
SaveWriteOk(i) ==
    /\ spc[i] = "writing"
    /\ LET sess == UpdateOneSession(ssn[i])
       IN IF sess = NoSession
            THEN /\ store' = Upsert(store, WriteFilter(i), WriteDoc(i), i)
                 /\ UNCHANGED stxn
            ELSE /\ stxn' = [stxn EXCEPT ![sess] = @ \cup {WriteCall(i)}]
                 /\ UNCHANGED store
    /\ spc' = [spc EXCEPT ![i] = "commit"]
    /\ UNCHANGED <<saveRest, cursorVars, findVars, cascadeVars, dres, modified,
                   storeAtStart, modAtStart, batch, allState, allResult, ssn, sfound,
                   sres, allErr>>

\* save(i) raises e: its transaction aborts, the gather of save_all is told
SaveTaskRaise(i, e) ==
    /\ spc' = [spc EXCEPT ![i] = "raised"]
    /\ sres' = [sres EXCEPT ![i] = SaveErrorFor(i, e)]
    /\ stxn' = [stxn EXCEPT ![ssn[i]] = {}]
    /\ allErr' = IF allErr = NoResult THEN SaveErrorFor(i, e) ELSE allErr
    /\ UNCHANGED <<saveRest, cursorVars, findVars, cascadeVars, dres, modified, store,
                   storeAtStart, modAtStart, batch, allState, allResult, ssn, sfound>>

\* lines 149-154: the insert of save(i) finds the _id taken by the insert of
\* another save()
SaveWriteDupPk(i) ==
    /\ spc[i] = "writing"
    /\ ~sfound[i]
    /\ Exists(store, WriteFilter(i))
    /\ SaveTaskRaise(i, [kind |-> "DuplicateKey_id", at |-> i])

\* lines 149-154: update_one of save(i) raises
SaveWriteFail(i, kind) ==
    /\ spc[i] = "writing"
    /\ SaveTaskRaise(i, [kind |-> kind, at |-> i])

\* lines 158-161 and 166: the transaction of save(i) commits, the session
\* ends, the modified-fields set is cleared, save(i) returns the instance
SaveCommit(i) ==
    /\ spc[i] = "commit"
    /\ store' = ApplyAll(store, stxn[ssn[i]])
    /\ stxn' = [stxn EXCEPT ![ssn[i]] = {}]
    /\ modified' = [modified EXCEPT ![i] = {}]
    /\ spc' = [spc EXCEPT ![i] = "returned"]
    /\ sres' = [sres EXCEPT ![i] = [kind |-> "ok", instance |-> i]]
    /\ UNCHANGED <<saveRest, cursorVars, findVars, cascadeVars, dres, storeAtStart,
                   modAtStart, batch, allState, allResult, ssn, sfound, allErr>>

\* lines 169-172: every save() returned: the results, in the order of the
\* instances
SaveAllReturn ==
    /\ allState = "running"
    /\ \A i \in InBatch : spc[i] = "returned"
    /\ allState' = "returned"
    /\ allResult' = [kind |-> "ok", instance |-> [k \in DOMAIN batch |-> sres[batch[k]].instance]]
    /\ UNCHANGED <<saveRest, cursorVars, findVars, cascadeVars, dres, modified, store,
                   storeAtStart, modAtStart, batch, spc, ssn, stxn, sfound, sres, allErr>>

\* line 169: the gather raises the exception of the first save() that
\* raised; the other save() tasks run on
SaveAllRaise ==
    /\ allState = "running"
    /\ allErr # NoResult
    /\ allState' = "raised"
    /\ allResult' = allErr
    /\ UNCHANGED <<saveRest, cursorVars, findVars, cascadeVars, dres, modified, store,
                   storeAtStart, modAtStart, batch, spc, ssn, stxn, sfound, sres, allErr>>

\* ------------------------------------------------------------- delete
NoDelete == [instance |-> 0, count |-> 0]

\* a cascading delete: the documents of the referenced sub-instances too
DeleteCascade(i) == {OwnSlot(j) : j \in Subtree(i)}

\* lines 176-178: the documents delete_many matches: those of the instance's
\* collection whose _id is the value of its primary-key field
DeleteMatched(i) ==
    {s \in Slots : s = <<Collection(i), Attr(i, PK)>> /\ Exists(store, s)}

\* delete, lines 174-179 (the caller's one delete of the run)
Delete(i) ==
    /\ dres = NoDelete
    /\ store' = [s \in Slots |-> IF s \in DeleteMatched(i) THEN NoDoc ELSE store[s]]
    /\ dres' = [instance |-> i, count |-> Cardinality(DeleteMatched(i))]
    /\ UNCHANGED <<saveRest, cursorVars, findVars, cascadeVars, allVars, modified,
                   storeAtStart, modAtStart>>

\* no model declares a reference field, no collection holds a document
InitFindIdle ==
    /\ refs = [m \in Models |-> <<>>]
    /\ coll = [m \in Models |-> [id \in Ids |-> NoStored(m)]]
    /\ fcall = NoCall
    /\ fops = <<>>
    /\ fres = NoValue

InitCascadeIdle ==
    /\ bpc = "idle"
    /\ bmodel = 0
    /\ bstack = <<>>
    /\ bout = <<>>

InitAllIdle ==
    /\ batch = <<>>
    /\ allState = "idle"
    /\ allResult = NoResult
    /\ spc = [i \in Insts |-> "idle"]
    /\ ssn = [i \in Insts |-> 0]
    /\ stxn = [i \in Insts |-> {}]
    /\ sfound = [i \in Insts |-> FALSE]
    /\ sres = [i \in Insts |-> NoResult]
    /\ allErr = NoResult

InitFacadeIdle ==
    /\ InitFindIdle
    /\ InitCascadeIdle
    /\ InitAllIdle
    /\ dres = NoDelete

\* the models of the scenario: Book (1) with one reference field to Author (2)
BookAuthor == [m \in Models |-> IF m = 1 THEN <<2>> ELSE <<>>]

\* the documents a collection of model m may hold under one _id
StoredChoices(g, m) ==
    {[present |-> FALSE, fk |-> [k \in 1..Len(g[m]) |-> 1]]}
    \cup {[present |-> TRUE, fk |-> f] : f \in [1..Len(g[m]) -> Ids]}

InitTasks ==
    /\ txn = NoTxn
    /\ saveState = "idle"
    /\ root = 1
    /\ result = NoResult
    /\ pc = [t \in Insts |-> "idle"]
    /\ found = [t \in Insts |-> FALSE]
    /\ err = [t \in Insts |-> NoErr]
    /\ gerr = [t \in Insts |-> NoErr]
    /\ storeAtStart = store
    /\ modAtStart = modified
    /\ saves = 0
    /\ issued = {}
    /\ late = {}

\* one save() of a tree of instances, each fresh or loaded from the store
Init ==
    /\ PK \in PrimaryKeys
    /\ parent \in Trees
    /\ pkv \in {v \in [Insts -> Ids] : \A i \in Insts : v[i] <= i}
    /\ modified \in [Insts -> ModifiedChoices(PK)]
    /\ store = InitialStore(PK, parent, pkv, modified)
    /\ InitTasks
    /\ InitCursorOver(<<>>)
    /\ InitFacadeIdle

\* successive save() calls on freshly constructed instances, the store empty
InitSeq ==
    /\ PK \in PrimaryKeys
    /\ parent \in Trees
    /\ pkv \in {v \in [Insts -> Ids] : \A i \in Insts : v[i] <= i}
    /\ modified = [i \in Insts |-> OdmFields(PK)]
    /\ store = [s \in Slots |-> NoDoc]
    /\ InitTasks
    /\ InitCursorOver(<<>>)
    /\ InitFacadeIdle

\* one AIOCursor over a motor cursor, no save() under way
InitCursor ==
    /\ PK = "id"
    /\ parent = [i \in Insts |-> i - 1]
    /\ pkv = [i \in Insts |-> 1]
    /\ modified = [i \in Insts |-> {}]
    /\ store = [s \in Slots |-> NoDoc]
    /\ InitTasks
    /\ \E docs \in Streams : InitCursorOver(docs)
    /\ InitFacadeIdle

\* find, find_one and count: over any acyclic model classes with the
\* collections empty, or over Book and Author with any documents stored
InitFind ==
    /\ PK = "id"
    /\ parent = [i \in Insts |-> i - 1]
    /\ pkv = [i \in Insts |-> 1]
    /\ modified = [i \in Insts |-> {}]
    /\ store = [s \in Slots |-> NoDoc]
    /\ InitTasks
    /\ InitCursorOver(<<>>)
    /\ \/ /\ refs \in AcyclicGraphs
          /\ coll = [m \in Models |-> [id \in Ids |-> NoStored(m)]]
       \/ /\ refs = BookAuthor
          /\ \E books \in [Ids -> StoredChoices(BookAuthor, 1)],
                authors \in [Ids -> StoredChoices(BookAuthor, 2)] :
                coll = [m \in Models |->
                          IF m = 1 THEN books
                          ELSE IF m = 2 THEN authors
                          ELSE [id \in Ids |-> NoStored(m)]]
    /\ fcall = NoCall
    /\ fops = <<>>
    /\ fres = NoValue
    /\ InitCascadeIdle
    /\ InitAllIdle
    /\ dres = NoDelete

\* one call of _cascade_find_pipeline, for any model classes
InitCascade ==
    /\ PK = "id"
    /\ parent = [i \in Insts |-> i - 1]
    /\ pkv = [i \in Insts |-> 1]
    /\ modified = [i \in Insts |-> {}]
    /\ store = [s \in Slots |-> NoDoc]
    /\ InitTasks
    /\ InitCursorOver(<<>>)
    /\ refs \in Graphs
    /\ coll = [m \in Models |-> [id \in Ids |-> NoStored(m)]]
    /\ fcall = NoCall
    /\ fops = <<>>
    /\ fres = NoValue
    /\ InitCascadeIdle
    /\ InitAllIdle
    /\ dres = NoDelete

\* one save_all of a batch of instances without reference fields, each fresh
\* or loaded; the instances outside the batch are loaded and clean
InitAll ==
    /\ PK = "id"
    /\ parent = [i \in Insts |-> 0]
    /\ batch \in Batches
    /\ pkv \in {v \in [Insts -> Ids] :
                  \A i \in Insts : v[i] <= i /\ (i \notin InBatch => v[i] = 1)}
    /\ modified \in {mod \in [Insts -> ModifiedChoices(PK)] :
                       \A i \in Insts \ InBatch : mod[i] = {}}
    /\ store = InitialStore(PK, parent, pkv, modified)
    /\ InitTasks
    /\ InitCursorOver(<<>>)
    /\ InitFindIdle
    /\ InitCascadeIdle
    /\ allState = "idle"
    /\ allResult = NoResult
    /\ spc = [i \in Insts |-> "idle"]
    /\ ssn = [i \in Insts |-> 0]
    /\ stxn = [i \in Insts |-> {}]
    /\ sfound = [i \in Insts |-> FALSE]
    /\ sres = [i \in Insts |-> NoResult]
    /\ allErr = NoResult
    /\ dres = NoDelete

Tasks ==
    \/ TasksRun
    \/ \E t \in Insts : GatherReturn(t)
    \/ \E t \in Insts : GatherRaise(t)
    \/ \E t \in Insts : WriteOk(t)
    \/ \E t \in Insts : WriteDupPk(t)
    \/ \E t \in Insts, k \in FailureKinds : WriteFail(t, k)
    \/ SaveReturn
    \/ SaveRaise

Next ==
    \/ \E i \in Insts : SaveStart(i)
    \/ Tasks

NextSeq ==
    \/ \E i \in Insts : SaveStart(i)
    \/ \E i \in Insts : SaveAgain(i)
    \/ Tasks

NextCursor ==
    \/ \E c \in Consumers : AwaitStart(c)
    \/ \E c \in Consumers : ToList(c)
    \/ \E c \in Consumers : AwaitParse(c)
    \/ \E c \in Consumers : AwaitReturn(c)
    \/ \E c \in Consumers : IterStart(c)
    \/ \E c \in Consumers : IterNext(c)
    \/ \E c \in Consumers : IterExhausted(c)
    \/ \E c \in Consumers : IterAbandon(c)
    \/ \E c \in Consumers : FetchFail(c)

NextFind ==
    \/ \E m \in ModelArgs, q \in Queries, l, k \in -1..MaxLimit : Find(m, q, l, k)
    \/ \E m \in ModelArgs, q \in Queries : FindOne(m, q)
    \/ \E m \in ModelArgs, q \in Queries : Count(m, q)

CascadeStep ==
    \/ CascadeCall
    \/ CascadeOverflow
    \/ CascadeReturn

NextCascade ==
    \/ \E m \in Models : CascadeStart(m)
    \/ CascadeStep

NextAll ==
    \/ SaveAll
    \/ SavesRun
    \/ \E i \in Insts : SaveWriteOk(i)
    \/ \E i \in Insts : SaveWriteDupPk(i)
    \/ \E i \in Insts : SaveWriteFail(i, "Transport")
    \/ \E i \in Insts : SaveCommit(i)
    \/ SaveAllReturn
    \/ SaveAllRaise

NextDelete == \E i \in Insts : Delete(i)

Spec == Init /\ [][Next]_vars

SpecSeq == InitSeq /\ [][NextSeq]_vars

SpecCursor == InitCursor /\ [][NextCursor]_vars

SpecFind == InitFind /\ [][NextFind]_vars

SpecCascade == InitCascade /\ [][NextCascade]_vars

SpecAll == InitAll /\ [][NextAll]_vars

\* delete calls on a tree of instances, each fresh or loaded from the store
SpecDelete == Init /\ [][NextDelete]_vars

\* the call is synchronous code: once made, it runs on without suspending
SpecCascadeFair == SpecCascade /\ WF_vars(CascadeStep)

\* ------------------------------------------------------------ properties
Ended == saveState \in {"returned", "raised"}

Written == {w.inst : w \in issued}

\* C1: the writes of one save(root) commit or abort together: when save has
\* raised, no write it issued is visible in the store; when it has returned,
\* every write it issued is.
C1_SaveIsAtomic ==
    /\ saveState = "raised" => store = storeAtStart
    /\ saveState = "returned" =>
          \A w \in issued : \A f \in DOMAIN w.doc :
              /\ Exists(store, w.slot)
              /\ f \in DOMAIN store[w.slot].fields

\* C2: when the write of an instance is issued, the _save calls of all its
\* referenced sub-instances, and of their whole subtrees, have completed
\* (their writes are applied).
C2_ChildrenBeforeParent ==
    \A w \in issued : \A d \in Subtree(w.inst) \ {w.inst} : pc[d] = "done"

\* C2 witness: an instance with a referenced sub-instance has its write issued
\* after the sub-instance's own write.
C2_Witness ==
    \E t \in Insts : \E c \in Children(t) :
        /\ pc[t] = "writing"
        /\ c \in Written
        /\ Exists(store, WriteFilter(c))

\* C3: after a successful save(root), every instance the recursion saved has
\* an empty modified-fields set.
C3_SubInstancesClean ==
    saveState = "returned" => \A i \in Subtree(root) : modified[i] = {}

\* C4: save(root) clears the root's modified-fields set exactly when it
\* returns: empty after a return, what it was before the call after a raise.
C4_ClearedIffReturned ==
    /\ saveState = "returned" => modified[root] = {}
    /\ saveState = "raised" => modified[root] = modAtStart[root]

\* C4 witness: save has raised on a root with modified fields.
C4_Witness ==
    /\ saveState = "raised"
    /\ result.kind = "Transport"
    /\ modAtStart[root] # {}
    /\ Written # {}

\* C5: a write is issued for an instance only when its modified-fields set is
\* non-empty, and a save that returns has issued one for exactly the modified
\* instances of the graph; with nothing modified in the graph it issues no
\* write, leaves the store as it was and returns the instance.
C5_WritesExactlyModified ==
    /\ \A i \in Written : i \in Subtree(root) /\ modAtStart[i] # {}
    /\ saveState = "returned" =>
          /\ Written = {i \in Subtree(root) : modAtStart[i] # {}}
          /\ result = [kind |-> "ok", instance |-> root]
          /\ (\A i \in Subtree(root) : modAtStart[i] = {}) =>
                issued = {} /\ store = storeAtStart /\ modified = modAtStart

\* C5 witness: a save of an instance with sub-instances, nothing modified in
\* the graph, has returned.
C5_Witness ==
    /\ saveState = "returned"
    /\ Children(root) # {}
    /\ \A i \in Subtree(root) : modAtStart[i] = {}

\* C6: every write of save is an upsert of the document whose identifier is
\* the instance's primary-key value; it sets exactly the modified fields
\* other than the primary key and leaves every other stored field, and every
\* other document, as it was.
C6_UpsertByPrimaryKey ==
    [][\A t \in Insts :
         (pc[t] = "writing" /\ pc'[t] = "done") =>
           LET s == OwnSlot(t) IN
           /\ \A o \in Slots \ {s} : store'[o] = store[o]
           /\ Exists(store', s)
           /\ \A f \in DOMAIN store'[s].fields :
                 IF f \in modified[t] \ {PK}
                   THEN store'[s].fields[f] = Attr(t, f)
                   ELSE /\ f \in DOMAIN store[s].fields
                        /\ store'[s].fields[f] = store[s].fields[f]
           /\ modified[t] \ {PK} \subseteq DOMAIN store'[s].fields]_vars

\* C7: when a write of the saved graph fails with a uniqueness violation on
\* the primary key, save raises DuplicatePrimaryKeyError carrying the instance
\* whose write violated the key; a violation on another key is re-raised
\* unchanged.
C7_CarriesOffendingInstance ==
    saveState = "raised" =>
        /\ err[root].kind = "DuplicateKey_id" =>
              result = [kind |-> "DuplicatePrimaryKeyError", instance |-> err[root].at]
        /\ err[root].kind = "DuplicateKey_other" => result.kind = "DuplicateKey_other"

\* C8: saving a second, distinct instance with the primary key of a document
\* that an earlier save stored raises DuplicatePrimaryKeyError for the second
\* instance and leaves the stored document as it was.
C8_SecondSaveRaises ==
    ( /\ Ended
      /\ PK = "id"
      /\ Children(root) = {}
      /\ modAtStart[root] # {}
      /\ storeAtStart[OwnSlot(root)].owner \notin {0, root}
      /\ err[root].kind \notin FailureKinds )
    => /\ result = [kind |-> "DuplicatePrimaryKeyError", instance |-> root]
       /\ store[OwnSlot(root)] = storeAtStart[OwnSlot(root)]

\* c1 is the first consumption of the cursor and ran to the end alone; c2
\* started after c1 had completed, and ran to the end.
InSequence(c1, c2) ==
    /\ c1 # c2
    /\ cpc[c1] = "done" /\ cpc[c2] = "done"
    /\ ~cmat[c1]
    /\ c1 \in cprior[c2]
    /\ \A c3 \in Consumers \ {c1} : cpc[c3] # "idle" => c1 \in cprior[c3]

\* C9: two materializations of one cursor in sequence (await or iteration to
\* exhaustion, in any combination) give the same ordered sequence of
\* instances; the second does not read the motor cursor, and no consumption
\* started on a materialized cursor ever does.
C9_SecondMaterializationReplays ==
    /\ \A c1, c2 \in Consumers :
          InSequence(c1, c2) => cout[c2] = cout[c1] /\ c2 \notin readers
    /\ \A c \in Consumers : cmat[c] => c \notin readers /\ cpc[c] = "done"

\* C9 witness: an iteration to exhaustion, then an await, of a cursor over
\* two different documents.
C9_Witness ==
    \E c1, c2 \in Consumers :
        /\ InSequence(c1, c2)
        /\ ckind[c1] = "aiter" /\ ckind[c2] = "await"
        /\ Len(cout[c2]) = 2 /\ cout[c2][1] # cout[c2][2]

\* C10: a consumption that ends with an error of the motor cursor or of the
\* parse does not mark the cursor materialized: the cache is only ever the
\* list of a consumption that read to the end, and a consumption is served
\* from the cache only when such a consumption has completed.
C10_ErrorLeavesUnmaterialized ==
    /\ results.set =>
          \E d \in Consumers :
              cpc[d] = "done" /\ ~cmat[d] /\ results.items = clocal[d]
    /\ \A c \in Consumers :
          cmat[c] => \E d \in cprior[c] : cpc[d] = "done" /\ ~cmat[d]

\* C10 witness: an iteration failed after it had parsed an instance, and a
\* consumption started after that finds the cursor not materialized.
C10_Witness ==
    \E c1, c2 \in Consumers :
        /\ cpc[c1] = "failed" /\ clocal[c1] # <<>>
        /\ c1 \in cprior[c2]
        /\ cpc[c2] # "idle" /\ ~cmat[c2]

\* the positions of the stages of one operator in a pipeline
StagesOf(p, op) == {i \in DOMAIN p : p[i].op = op}

\* C11: the pipeline find issues is one $match stage holding the query, then
\* a $limit stage only if limit is not 0 (present for a positive limit, with
\* its value), then a $skip stage only if skip is not 0 (likewise), then the
\* model's cascade stages; no stage carries a literal 0.
C11_FindPipelineOrder ==
    (fcall.name = "find" /\ fres.kind = "AIOCursor") =>
        LET p == fops[1].arg
            cascade == CascadePipeline(fcall.model)
            n == Len(p) - Len(cascade)
            front == SubSeq(p, 1, n)
            limits == StagesOf(front, "$limit")
            skips == StagesOf(front, "$skip")
        IN /\ Len(fops) = 1 /\ fops[1].op = "aggregate"
           /\ n >= 1
           /\ front[1] = Stage("$match", fcall.query)
           /\ SubSeq(p, n + 1, Len(p)) = cascade
           /\ limits \cup skips = 2..n
           /\ Cardinality(limits) <= 1 /\ Cardinality(skips) <= 1
           /\ \A i \in limits, j \in skips : i < j
           /\ \A i \in limits : fcall.limit # 0 /\ front[i].arg = fcall.limit
           /\ \A j \in skips : fcall.skip # 0 /\ front[j].arg = fcall.skip
           /\ fcall.limit > 0 => limits # {}
           /\ fcall.skip > 0 => skips # {}

\* C11 witness: find with a limit and a skip on a model with a reference
\* field has issued a pipeline of match, limit, skip, lookup, unwind.
C11_Witness ==
    /\ fcall.name = "find" /\ fres.kind = "AIOCursor"
    /\ fcall.limit = 2 /\ fcall.skip = 1
    /\ fcall.query # EmptyQuery
    /\ Len(References(fcall.model)) = 1
    /\ Len(fops[1].arg) = 5

MaxOf(S) == IF S = {} THEN 0 ELSE CHOOSE x \in S : \A y \in S : y <= x

\* the levels of nested references under a model (no cycle under it)
RECURSIVE Levels(_)
Levels(model) ==
    IF References(model) = <<>> THEN 0
    ELSE 1 + MaxOf({Levels(RefModel(model, k)) : k \in DOMAIN References(model)})

\* the levels of nested lookups in a stage list
RECURSIVE LookupLevels(_)
LookupLevels(p) ==
    LET lookups == StagesOf(p, "$lookup")
    IN IF lookups = {} THEN 0
       ELSE 1 + MaxOf({LookupLevels(Tail(p[i].arg.pipeline)) : i \in lookups})

\* p is, per reference field of the model in declaration order, one lookup
\* of the referred collection by the field's key, holding the referred
\* model's own pairs after its $match, immediately followed by its unwind
RECURSIVE PairsPerField(_, _)
PairsPerField(p, model) ==
    /\ Len(p) = 2 * Len(References(model))
    /\ \A k \in DOMAIN References(model) :
          LET lk == p[2 * k - 1]
          IN /\ lk.op = "$lookup"
             /\ lk.arg.from = ModelCollection(RefModel(model, k))
             /\ lk.arg.let = KeyName(model, k)
             /\ lk.arg.as = k
             /\ Len(lk.arg.pipeline) >= 1
             /\ lk.arg.pipeline[1] = ForeignMatch
             /\ PairsPerField(Tail(lk.arg.pipeline), RefModel(model, k))
             /\ p[2 * k] = Stage("$unwind", k)

\* C12: for a model whose reference graph is acyclic with N levels of nested
\* references, the cascade stages hold exactly N levels of lookup+unwind
\* pairs: per level one lookup immediately followed by its unwind per
\* reference field, in declaration order, the referred model's own stages
\* nested in the lookup; no reference field gives the empty list.
C12_LookupUnwindPerLevel ==
    bpc = "done" =>
        /\ PairsPerField(bout, bmodel)
        /\ LookupLevels(bout) = Levels(bmodel)
        /\ References(bmodel) = <<>> => bout = <<>>
        /\ bout = CascadePipeline(bmodel)

\* C12 witness: the stages of a model with two levels of nested references
\* have been built.
C12_Witness ==
    /\ bpc = "done"
    /\ Acyclic(refs, bmodel)
    /\ Levels(bmodel) = 2
    /\ Len(bout) = 2

\* C20: building the cascade stages ends with a stage list exactly when the
\* references reachable from the model form no cycle; with a cycle the
\* recursion never returns and goes as deep as the interpreter allows.
C20_TerminatesIffAcyclic ==
    /\ [](bpc = "done" => Acyclic(refs, bmodel))
    /\ [](bpc = "RecursionError" => ~Acyclic(refs, bmodel) /\ Len(bstack) = MaxDepth)
    /\ \A m \in Models :
          (bpc = "building" /\ bmodel = m /\ Acyclic(refs, m)) ~> (bpc = "done")
    /\ \A m \in Models :
          (bpc = "building" /\ bmodel = m /\ ~Acyclic(refs, m))
              ~> (bpc = "RecursionError")

\* C20 witness: the recursion over models with a reference cycle has reached
\* the recursion limit.
C20_Witness ==
    /\ bpc = "RecursionError"
    /\ ~Acyclic(refs, bmodel)
    /\ Len(bstack) = MaxDepth

\* C13: save_all runs one save per instance, each in a session and a
\* transaction of its own, and no transaction holds a write of another save;
\* it returns the results in input order; when a save fails its error is
\* raised by save_all, and the write of every other save that returned stays
\* in the store.
C13_SaveAllIndependent ==
    /\ \A i \in Insts :
          /\ spc[i] # "idle" => i \in InBatch
          /\ spc[i] \notin {"idle", "new"} =>
                /\ ssn[i] # 0
                /\ \A j \in Insts \ {i} : ssn[j] # ssn[i]
                /\ \A w \in stxn[ssn[i]] : w.inst = i
    /\ allState = "returned" =>
          /\ \A i \in InBatch : spc[i] = "returned"
          /\ allResult = [kind |-> "ok", instance |-> batch]
    /\ allState = "raised" =>
          /\ \E i \in InBatch : spc[i] = "raised" /\ allResult = sres[i]
          /\ allResult.kind \in FailureKinds \cup {"DuplicatePrimaryKeyError"}
    /\ \A i \in InBatch :
          (spc[i] = "returned" /\ modAtStart[i] # {}) =>
             /\ Exists(store, WriteFilter(i))
             /\ modAtStart[i] \ {PK} \subseteq DOMAIN store[WriteFilter(i)].fields

\* C13 witness: save_all has raised the error of one save while another save
\* of it returned, and the document that save inserted is in the store.
C13_Witness ==
    /\ allState = "raised"
    /\ Len(batch) = 2
    /\ \E i \in InBatch :
          /\ spc[i] = "returned"
          /\ ~Exists(storeAtStart, WriteFilter(i))
          /\ Exists(store, WriteFilter(i))
          /\ store[WriteFilter(i)].owner = i

\* C14: delete(instance) removes only the document of the instance's own
\* collection whose _id is the instance's primary-key value and returns how
\* many it removed (0 when there is none); the documents of referenced
\* sub-instances and every other document, the in-memory instances and their
\* modified-fields sets are left as they were.
C14_DeleteOnlyOwnDocument ==
    [][dres' # dres =>
         LET i == dres'.instance
             own == OwnSlot(i)
         IN /\ ~Exists(store', own)
            /\ \A s \in Slots \ {own} : store'[s] = store[s]
            /\ dres'.count = (IF Exists(store, own) THEN 1 ELSE 0)
            /\ modified' = modified
            /\ <<PK, parent, pkv>>' = <<PK, parent, pkv>>]_vars

\* C14 witness: the document of a modified instance has been deleted and the
\* document of a sub-instance it refers to is still stored.
C14_Witness ==
    /\ dres.count = 1
    /\ modified[dres.instance] # {}
    /\ ~Exists(store, OwnSlot(dres.instance))
    /\ \E c \in Children(dres.instance) : Exists(store, OwnSlot(c))

\* C15: find, find_one and count called with a value that is not a model
\* type raise a type-mismatch error and issue no store operation (no
\* pipeline, no count) and create no cursor; with a model type they do not
\* raise it.
C15_TypeErrorBeforeIO ==
    fcall.name \in {"find", "find_one", "count"} =>
        /\ fcall.model \notin Models =>
              /\ fres = [kind |-> "TypeError", value |-> fcall.name]
              /\ fops = <<>>
        /\ fcall.model \in Models => fres.kind # "TypeError"
        /\ fres.kind = "TypeError" => fops = <<>>
        /\ fres.kind = "AIOCursor" => fcall.name = "find" /\ fcall.model \in Models

\* C15 witness: find_one was called with a value that is not a model type.
C15_Witness ==
    /\ fcall.name = "find_one"
    /\ fcall.model = NotAModel
    /\ fres.kind = "TypeError"
    /\ fops = <<>>

\* the consumptions of the cursor ran one after the other, and none failed
OneAtATime ==
    \A c, d \in Consumers :
        (c # d /\ cpc[c] # "idle" /\ cpc[d] # "idle") => c \in cprior[d] \/ d \in cprior[c]

NoneFailed == \A c \in Consumers : cpc[c] # "failed"

\* C16: every instance an iteration parses goes to the cursor's cache as it
\* is yielded, so after any sequence of consumptions (an iteration abandoned
\* before the end and a later iteration or await included) the cache of a
\* materialized cursor is the complete ordered sequence of the documents the
\* stream produced.
C16_CacheIsWholeStream ==
    (results.set /\ OneAtATime /\ NoneFailed) => results.items = ParseAll(stream)

\* C17: the cache is assigned once: under any interleaving of iterations and
\* awaits on one cursor, once the cursor is materialized its cached sequence
\* is never replaced or changed.
C17_CacheAssignedOnce ==
    [][results.set => results' = results]_vars

\* C18: once save has returned or raised, no write of it goes to the store
\* any more: the _save calls of the sub-instances that were still running
\* when the error propagated call update_one no more, and no update_one of
\* theirs takes effect in the store.
C18_NoWriteAfterSaveEnded ==
    [][Ended => (issued' = issued /\ store' = store)]_vars

\* C19: find_one(model, query) returns None exactly when find(model, query)
\* without a limit yields no instance: whenever a stored document matches
\* the query and has its references resolvable, find_one returns an
\* instance, also when a matching document with an unresolvable reference
\* precedes it.
C19_FindOneNoneIffFindEmpty ==
    (fcall.name = "find_one" /\ fcall.model \in Models) =>
        /\ fres.kind \in {"None", "instance"}
        /\ fres.kind = "None" <=> FindDocs(fcall.model, fcall.query, 0, 0) = <<>>

====
